---- MODULE Spec2Model ----
(***************************************************************************)
(* pyBinSim application layer (src/pybinsim/application.py): BinSimConfig, *)
(* BinSim (construction, stream_start, context exit and __cleanup) and the *)
(* PyAudio callback built by audio_callback.                               *)
(*                                                                         *)
(* Three threads of control are modelled: the main thread (mainpc), the    *)
(* audio host's callback thread (cb.pc) and the control thread that feeds  *)
(* the OscReceiver.  FilterStorage, OscReceiver, SoundHandler and          *)
(* ConvolverFFTW are other modules of the package; they are modelled from  *)
(* their description in the specification.                                 *)
(*                                                                         *)
(* A block of audio is modelled by one representative sample per channel   *)
(* plus its length; the result buffer is a stereo pair of numerators over  *)
(* a common denominator, so that the float scaling is exact.               *)
(***************************************************************************)
EXTENDS Integers, Sequences, FiniteSets, TLC

\* ---------------------------------------------------------------- bounds
\* configured 'maxChannels' of the session
MaxChannels == 2
\* configured 'blockSize' of the session
BlockSize == 2
\* how many messages the control thread receives in one session
MaxMessages == 2

\* ------------------------------------------------------------- constants
\* pyaudio.paContinue as the module defines it
PaContinue == 0
\* pyaudio.paComplete; the value line 212 stores into pyaudio.paContinue
PaComplete == 1

Channels == 0 .. (MaxChannels - 1)
NoKey == "none"
HPKey == "HPFILTER"
\* keys of the filter list that was loaded
RegisteredKeys == {"k1", HPKey}
\* keys the control thread may send for a channel: one registered, one not
ControlKeys == {"k1", "kx"}
\* values an np.empty buffer may hold before its first write
Uninitialized == {0, 7}
\* length of every sound file, in samples: one full block and a shorter one
Min(a, b) == IF a < b THEN a ELSE b

SourceSamples == (2 * BlockSize) - 1
\* a sound file is identified by its channel count
SoundFiles == 0 .. (MaxChannels + 1)
\* a factor other than one, so that leaving it out changes the output
LoudnessFactors == {2}

VARIABLES
    config,        \* BinSimConfig.configurationDict (the entries used here)
    mainpc,        \* position of the main thread
    result,        \* binsim.result: [l, r, den]
    block,         \* binsim.block: channel -> representative sample
    filterStorage, \* "none" | "open" | "closed"
    oscReceiver,   \* "none" | "listening" | "closed"
    slot,          \* OscReceiver: channel -> pending FilterKey or NoKey
    soundFileList, \* OscReceiver: the requested sound files, << >> when none
    messages,      \* OscReceiver: messages received so far
    soundHandler,  \* [state, channels, remaining]
    convolvers,    \* channel -> [state, ir, hist]
    convolverHP,   \* [state, ir]
    p,             \* pyaudio.PyAudio(): "none" | "open" | "terminated"
    stream,        \* "none" | "active" | "inactive" | "stopped" | "closed"
    paContinue,    \* the module attribute pyaudio.paContinue
    cb,            \* the callback's frame: [pc, n, nch, len]
    log,           \* what the callback invocation in progress has done so far
    out            \* the flag and length of the last block returned

vars == << config, mainpc, result, block, filterStorage, oscReceiver, slot,
           soundFileList, messages, soundHandler, convolvers, convolverHP,
           p, stream, paContinue, cb, log, out >>

mainVars == << filterStorage, oscReceiver, soundHandler, convolvers,
               convolverHP, p, stream >>
oscVars == << slot, soundFileList, messages >>
cbVars == << result, block, paContinue, cb, log, out >>

\* ------------------------------------------------------------ FilterStorage
\* the impulse-response pair stored under a key, as (left gain, right gain)
FilterOf(key) ==
    CASE key = "k1" -> << 1, 2 >>
      [] key = HPKey -> << 2, 3 >>
      [] OTHER -> << 0, 0 >>

\* FilterStorage.get_filter: the stored pair, or NotFound
get_filter(key) ==
    IF filterStorage = "open" /\ key \in RegisteredKeys
    THEN key
    ELSE "NotFound"

\* ------------------------------------------------------------ ConvolverFFTW
NewConvolver ==
    [state |-> "open", ir |-> NoKey, hist |-> 0, crossfade |-> FALSE]
NoConvolver ==
    [state |-> "none", ir |-> NoKey, hist |-> 0, crossfade |-> FALSE]

\* Python values handed around as flags: the two booleans, written <True>
\* and <False>, and strings, written as themselves
PyTrue == "<True>"
PyFalse == "<False>"

\* the truth value Python gives a flag: a string is true unless it is empty
Truthy(v) == v \notin { PyFalse, "" }

\* ConvolverFFTW.setIR: install a new impulse response, with or without
\* crossfading from the old one
setIR(c, key, do_crossfade) ==
    [c EXCEPT !.ir = key, !.crossfade = Truthy(do_crossfade)]

\* ConvolverFFTW.process: output of one block and the convolver afterwards
process(c, x) ==
    [left  |-> (FilterOf(c.ir)[1] * x) + c.hist,
     right |-> (FilterOf(c.ir)[2] * x) + c.hist,
     conv  |-> [c EXCEPT !.hist = x]]

\* the buffer's value in lowest terms: the same samples, written canonically
RECURSIVE GCD(_, _)
GCD(a, b) == IF b = 0 THEN a ELSE GCD(b, a % b)

Normalize(res) ==
    LET g == GCD(GCD(res.l, res.r), res.den)
    IN [l |-> res.l \div g, r |-> res.r \div g, den |-> res.den \div g]

\* the headphone convolver over the stereo pair
processHP(c, res) ==
    Normalize([res EXCEPT !.l = FilterOf(c.ir)[1] * res.l,
                          !.r = FilterOf(c.ir)[2] * res.r])

\* ------------------------------------------------------------- SoundHandler
\* SoundHandler.request_new_sound_file
request_new_sound_file(f) ==
    [state |-> "ready", channels |-> f, remaining |-> SourceSamples]

\* length of the block SoundHandler.buffer_read returns next
ReadLen(sh) == IF sh.remaining < BlockSize THEN sh.remaining ELSE BlockSize

\* the sample the source delivers on channel n
SampleOf(n) == n + 1

\* rows of the block SoundHandler.buffer_read returns: one per channel of the
\* file, or no more than the handler was built for
BufferRows(sh) == { sh.channels, Min(sh.channels, MaxChannels) }

\* ---------------------------------------------------------------- initial
EmptyLog ==
    [setIR   |-> [n \in Channels |-> 0],
     process |-> [n \in Channels |-> 0],
     hp      |-> 0,
     hpAfter |-> << >>,
     scaled  |-> 0,
     sum     |-> [l |-> 0, r |-> 0],
     summed  |-> {},
     before  |-> [n \in Channels |-> NoConvolver],
     presum  |-> [l |-> 0, r |-> 0, den |-> 1],
     initError |-> FALSE,
     observed |-> [n \in Channels |-> NoKey],
     atStart |-> [n \in Channels |-> NoKey],
     ops     |-> [n \in Channels |-> << >>],
     outIr   |-> [n \in Channels |-> NoKey],
     flag    |-> [n \in Channels |-> PyFalse],
     polls   |-> [n \in Channels |-> 0],
     atPoll  |-> [n \in Channels |-> NoKey],
     prescale |-> [l |-> 0, r |-> 0, den |-> 1],
     miss    |-> -1,
     missIr  |-> NoKey,
     raised  |-> FALSE,
     index   |-> << >>]

\* nothing returned yet
NoOutput ==
    [returned |-> FALSE, flag |-> PaContinue, len |-> 0]

Init ==
    /\ config \in [maxChannels : {MaxChannels},
                   blockSize : {BlockSize},
                   enableCrossfading : {"True", "False"},
                   useHeadphoneFilter : {"True", "False"},
                   loudnessFactor : LoudnessFactors]
    /\ mainpc = "init_filterStorage"
    /\ \E g \in Uninitialized : result = [l |-> g, r |-> g, den |-> 1]
    /\ block = [n \in Channels |-> 0]
    /\ filterStorage = "none"
    /\ oscReceiver = "none"
    /\ slot = [n \in Channels |-> NoKey]
    /\ soundFileList = << >>
    /\ messages = 0
    /\ soundHandler = [state |-> "none", channels |-> 0, remaining |-> 0]
    /\ convolvers = [n \in Channels |-> NoConvolver]
    /\ convolverHP = NoConvolver
    /\ p = "none"
    /\ stream = "none"
    /\ paContinue = PaContinue
    /\ cb = [pc |-> "idle", n |-> 0, nch |-> 0, len |-> 0]
    /\ log = EmptyLog
    /\ out = NoOutput


\* ------------------------------------------------- BinSim.__init__ (main)
\* the order in which __init__ and initialize_pybinsim build the components
InitOrder ==
    << "init_filterStorage", "init_oscReceiver", "init_soundHandler",
       "init_convolvers", "init_convolverHP", "init_pyaudio", "with_body" >>

\* the order in which __cleanup releases them
CleanupOrder ==
    << "cleanup_filterStorage", "cleanup_stop_stream", "cleanup_stream_close",
       "cleanup_terminate", "cleanup_oscReceiver", "cleanup_convolvers",
       "cleanup_convolverHP", "exited" >>

\* the element that follows x in the sequence seq
After(seq, x) ==
    LET i == CHOOSE j \in 1 .. Len(seq) : seq[j] = x IN seq[i + 1]

\* where the main thread is once a constructor has raised at `step`
PropagateSwallowed(step) == After(InitOrder, step)
Propagate(step) == "init_failed"

\* FilterStorage(filterSize, blockSize, filterList)
InitFilterStorage ==
    /\ mainpc = "init_filterStorage"
    /\ filterStorage' = "open"
    /\ mainpc' = After(InitOrder, mainpc)
    /\ UNCHANGED << config, oscReceiver, soundHandler, convolvers, convolverHP,
                    p, stream, oscVars, cbVars >>

\* OscReceiver(); start_listening()
InitOscReceiver ==
    /\ mainpc = "init_oscReceiver"
    /\ oscReceiver' = "listening"
    /\ mainpc' = After(InitOrder, mainpc)
    /\ UNCHANGED << config, filterStorage, soundHandler, convolvers,
                    convolverHP, p, stream, oscVars, cbVars >>

\* SoundHandler(...); request_new_sound_file([config 'soundfile'])
InitSoundHandler ==
    /\ mainpc = "init_soundHandler"
    /\ \E f \in SoundFiles : soundHandler' = request_new_sound_file(f)
    /\ mainpc' = After(InitOrder, mainpc)
    /\ UNCHANGED << config, filterStorage, oscReceiver, convolvers,
                    convolverHP, p, stream, oscVars, cbVars >>

\* one ConvolverFFTW per configured channel
InitConvolvers ==
    /\ mainpc = "init_convolvers"
    /\ convolvers' = [n \in Channels |-> NewConvolver]
    /\ mainpc' = After(InitOrder, mainpc)
    /\ UNCHANGED << config, filterStorage, oscReceiver, soundHandler,
                    convolverHP, p, stream, oscVars, cbVars >>

\* the headphone convolver, built and loaded with 'HPFILTER' when enabled
InitConvolverHP ==
    /\ mainpc = "init_convolverHP"
    /\ IF config.useHeadphoneFilter = "True"
       THEN /\ get_filter(HPKey) # "NotFound"
            /\ convolverHP' = setIR(NewConvolver, get_filter(HPKey), PyFalse)
       ELSE UNCHANGED convolverHP
    /\ mainpc' = After(InitOrder, mainpc)
    /\ UNCHANGED << config, filterStorage, oscReceiver, soundHandler,
                    convolvers, p, stream, oscVars, cbVars >>

\* self.p = pyaudio.PyAudio(); the constructor returns
InitPyAudio ==
    /\ mainpc = "init_pyaudio"
    /\ p' = "open"
    /\ mainpc' = After(InitOrder, mainpc)
    /\ UNCHANGED << config, filterStorage, oscReceiver, soundHandler,
                    convolvers, convolverHP, stream, oscVars, cbVars >>

\* a constructor or the headphone-filter lookup raises: nothing catches it
InitFail ==
    /\ mainpc \in { InitOrder[i] : i \in 1 .. (Len(InitOrder) - 1) }
    /\ mainpc' = Propagate(mainpc)
    /\ log' = [log EXCEPT !.initError = TRUE]
    /\ UNCHANGED << config, mainVars, oscVars, result, block, paContinue, cb,
                    out >>

\* ------------------------------------------------ with-body / stream_start
\* stream_start: p.open(..., stream_callback=audio_callback(self)); start
stream_start ==
    /\ mainpc = "with_body"
    /\ stream' = "active"
    /\ mainpc' = "stream_start_loop"
    /\ UNCHANGED << config, filterStorage, oscReceiver, soundHandler,
                    convolvers, convolverHP, p, oscVars, cbVars >>

\* while self.stream.is_active(): sleep -- falls through, then __exit__
StreamLoopExit ==
    /\ mainpc = "stream_start_loop"
    /\ stream # "active"
    /\ mainpc' = CleanupOrder[1]
    /\ UNCHANGED << config, mainVars, oscVars, cbVars >>

\* an exception in the with-body while the stream is active, then __exit__
Interrupt ==
    /\ mainpc = "stream_start_loop"
    /\ stream = "active"
    /\ mainpc' = CleanupOrder[1]
    /\ UNCHANGED << config, mainVars, oscVars, cbVars >>

\* the with-body ends without stream_start having been called, then __exit__
ExitBeforeStart ==
    /\ mainpc = "with_body"
    /\ mainpc' = CleanupOrder[1]
    /\ UNCHANGED << config, mainVars, oscVars, cbVars >>

\* --------------------------------------------------------- BinSim.__cleanup
\* self.filterStorage.close()
CleanupFilterStorage ==
    /\ mainpc = "cleanup_filterStorage"
    /\ filterStorage' = "closed"
    /\ mainpc' = After(CleanupOrder, mainpc)
    /\ UNCHANGED << config, oscReceiver, soundHandler, convolvers, convolverHP,
                    p, stream, oscVars, cbVars >>

\* close() -> stream_close() -> self.stream.stop_stream(); with no stream
\* the attribute access raises and __cleanup ends there.  Stopping a stream
\* waits for a running callback to return.
CleanupStopStream ==
    /\ mainpc = "cleanup_stop_stream"
    /\ IF stream = "none"
       THEN /\ mainpc' = "cleanup_raised"
            /\ UNCHANGED stream
       ELSE /\ cb.pc = "idle"
            /\ stream' = "stopped"
            /\ mainpc' = After(CleanupOrder, mainpc)
    /\ UNCHANGED << config, filterStorage, oscReceiver, soundHandler,
                    convolvers, convolverHP, p, oscVars, cbVars >>

\* self.stream.close()
CleanupStreamClose ==
    /\ mainpc = "cleanup_stream_close"
    /\ stream' = "closed"
    /\ mainpc' = After(CleanupOrder, mainpc)
    /\ UNCHANGED << config, filterStorage, oscReceiver, soundHandler,
                    convolvers, convolverHP, p, oscVars, cbVars >>

\* self.p.terminate()
CleanupTerminate ==
    /\ mainpc = "cleanup_terminate"
    /\ p' = "terminated"
    /\ mainpc' = After(CleanupOrder, mainpc)
    /\ UNCHANGED << config, filterStorage, oscReceiver, soundHandler,
                    convolvers, convolverHP, stream, oscVars, cbVars >>

\* self.oscReceiver.close()
CleanupOscReceiver ==
    /\ mainpc = "cleanup_oscReceiver"
    /\ oscReceiver' = "closed"
    /\ mainpc' = After(CleanupOrder, mainpc)
    /\ UNCHANGED << config, filterStorage, soundHandler, convolvers,
                    convolverHP, p, stream, oscVars, cbVars >>

\* for n in range(maxChannels): self.convolvers[n].close()
CleanupConvolvers ==
    /\ mainpc = "cleanup_convolvers"
    /\ convolvers' = [n \in Channels |-> [convolvers[n] EXCEPT !.state = "closed"]]
    /\ mainpc' = After(CleanupOrder, mainpc)
    /\ UNCHANGED << config, filterStorage, oscReceiver, soundHandler,
                    convolverHP, p, stream, oscVars, cbVars >>

\* if useHeadphoneFilter == 'True' and self.convolverHP: close it
CleanupConvolverHP ==
    /\ mainpc = "cleanup_convolverHP"
    /\ IF config.useHeadphoneFilter = "True" /\ convolverHP.state # "none"
       THEN convolverHP' = [convolverHP EXCEPT !.state = "closed"]
       ELSE UNCHANGED convolverHP
    /\ mainpc' = After(CleanupOrder, mainpc)
    /\ UNCHANGED << config, filterStorage, oscReceiver, soundHandler,
                    convolvers, p, stream, oscVars, cbVars >>

\* ------------------------------------------------ OscReceiver (control thread)
\* a filter message for channel n arrives: the slot holds the newest key
OscFilter(n, key) ==
    /\ oscReceiver = "listening"
    /\ messages < MaxMessages
    /\ slot' = [slot EXCEPT ![n] = key]
    /\ messages' = messages + 1
    /\ UNCHANGED << config, mainpc, mainVars, soundFileList, cbVars >>

\* a sound-file message arrives
OscSoundFile(f) ==
    /\ oscReceiver = "listening"
    /\ messages < MaxMessages
    /\ soundFileList' = << f >>
    /\ messages' = messages + 1
    /\ UNCHANGED << config, mainpc, mainVars, slot, cbVars >>


\* ------------------------------------------- audio_callback.callback (audio)
\* the steps of one invocation after the sound block was read, in order
PipelineSwapped == << "loop", "scale", "hp", "return" >>
Pipeline == << "loop", "hp", "scale", "return" >>

\* range(binsim.soundHandler.get_sound_channels())
LoopBoundAll(sh) == MaxChannels
LoopBound(sh) == sh.channels

\* numpy's rule for block[:nch, :] = data with data of length len
Broadcasts(len) == len = BlockSize \/ len = 1

\* the same rule for the rows: the slice block[:nch, :] stops at the buffer's
\* last row, and the data must have as many rows as the slice
BroadcastsRows(nch, rows) == rows = Min(nch, config.maxChannels)

\* an exception leaves the callback: the host aborts the stream
Raise(missed, ir, key) ==
    /\ stream' = "inactive"
    /\ cb' = [cb EXCEPT !.pc = "idle"]
    /\ log' = [EmptyLog EXCEPT !.initError = log.initError, !.raised = TRUE,
                                !.miss = missed, !.missIr = ir,
                                !.observed[missed] = key]

\* convolvers[n] or block[n] with n past the last element: IndexError
\* leaves the callback
RaiseIndexError(n) ==
    /\ stream' = "inactive"
    /\ cb' = [cb EXCEPT !.pc = "idle"]
    /\ log' = [EmptyLog EXCEPT !.initError = log.initError, !.raised = TRUE,
                                !.index = << n >>]

\* lines 174-179: take a requested sound file, read the next block
CallbackStart ==
    /\ stream = "active"
    /\ cb.pc = "idle"
    /\ LET sh1 == IF soundFileList # << >>
                  THEN request_new_sound_file(soundFileList[1])
                  ELSE soundHandler
           len == ReadLen(sh1)
           nch == LoopBound(sh1)
           fresh == [EmptyLog EXCEPT !.initError = log.initError,
                                     !.before = convolvers,
                                     !.atStart = slot]
       IN /\ soundFileList' = << >>
          /\ soundHandler' = [sh1 EXCEPT !.remaining = sh1.remaining - len]
          /\ \E rows \in BufferRows(sh1) :
             IF Broadcasts(len) /\ BroadcastsRows(sh1.channels, rows)
             THEN /\ block' = [n \in Channels |->
                                 IF n < sh1.channels THEN SampleOf(n) ELSE block[n]]
                  /\ cb' = [pc |-> IF nch > 0 THEN "loop" ELSE After(Pipeline, "loop"),
                            n |-> 0, nch |-> nch, len |-> len]
                  /\ log' = fresh
                  /\ UNCHANGED stream
             ELSE /\ stream' = "inactive"
                  /\ cb' = [pc |-> "idle", n |-> 0, nch |-> nch, len |-> len]
                  /\ log' = [fresh EXCEPT !.raised = TRUE]
                  /\ UNCHANGED block
    /\ UNCHANGED << config, mainpc, filterStorage, oscReceiver, convolvers,
                    convolverHP, p, slot, messages, result, paContinue, out >>

\* OscReceiver.is_filter_update_necessary(n)
is_filter_update_necessary(n) == slot[n] # NoKey

\* OscReceiver.get_current_values(n): the newest key of the slot
get_current_values(n) == slot[n]

\* lines 185-187: the key to look up for channel n, NoKey without an update
PolledKeyAlways(n) ==
    IF is_filter_update_necessary(n) THEN get_current_values(n) ELSE "k1"
PolledKeyOfFirst(n) ==
    IF is_filter_update_necessary(n) THEN get_current_values(0) ELSE NoKey
PolledKey(n) ==
    IF is_filter_update_necessary(n) THEN get_current_values(n) ELSE NoKey

\* lines 194-199: the first channel assigns, the others add
Accumulate(n, res, o) ==
    IF n = 0
    THEN [l |-> o.left, r |-> o.right, den |-> 1]
    ELSE [res EXCEPT !.l = res.l + (o.left * res.den),
                     !.r = res.r + (o.right * res.den)]

\* line 189: callback.config.get('enableCrossfading'), handed to setIR
CrossfadeArgument == config.enableCrossfading

\* lines 185-191: the calls made on channel convolver c for one block, in
\* order, with the block's output and the convolver afterwards
ChannelPassProcessFirst(c, update, found, x) ==
    LET o == process(c, x)
    IN [left |-> o.left, right |-> o.right,
        conv |-> IF update THEN setIR(o.conv, found, CrossfadeArgument)
                           ELSE o.conv,
        ops |-> IF update THEN << "process", "setIR" >> ELSE << "process" >>,
        flag |-> IF update THEN CrossfadeArgument ELSE PyFalse,
        outIr |-> c.ir]
ChannelPass(c, update, found, x) ==
    LET c1 == IF update THEN setIR(c, found, CrossfadeArgument) ELSE c
        o == process(c1, x)
    IN [left |-> o.left, right |-> o.right, conv |-> o.conv,
        ops |-> IF update THEN << "setIR", "process" >> ELSE << "process" >>,
        flag |-> IF update THEN CrossfadeArgument ELSE PyFalse,
        outIr |-> c1.ir]

\* lines 182-199, one pass of the loop for channel cb.n
CallbackChannel ==
    /\ cb.pc = "loop"
    /\ cb.n \in Channels
    /\ LET n == cb.n
           key == PolledKey(n)
           update == key # NoKey
           found == get_filter(key)
       IN /\ slot' = IF update THEN [slot EXCEPT ![n] = NoKey] ELSE slot
          /\ IF update /\ found = "NotFound"
             THEN /\ Raise(n, convolvers[n].ir, key)
                  /\ UNCHANGED << convolvers, result >>
             ELSE LET o == ChannelPass(convolvers[n], update, found, block[n])
                  IN /\ convolvers' = [convolvers EXCEPT ![n] = o.conv]
                     /\ result' = Accumulate(n, result, o)
                     /\ cb' = [cb EXCEPT
                                 !.pc = IF n + 1 < cb.nch THEN "loop"
                                        ELSE After(Pipeline, "loop"),
                                 !.n = n + 1]
                     /\ log' = [log EXCEPT
                                 !.setIR[n] = @ + (IF update THEN 1 ELSE 0),
                                 !.process[n] = @ + 1,
                                 !.observed[n] = IF update THEN key ELSE @,
                                 !.ops[n] = @ \o o.ops,
                                 !.outIr[n] = o.outIr,
                                 !.flag[n] = o.flag,
                                 !.polls[n] = @ + 1,
                                 !.atPoll[n] = slot[n],
                                 !.sum = [l |-> @.l + o.left, r |-> @.r + o.right],
                                 !.summed = @ \cup {n}]
                     /\ UNCHANGED stream
    /\ UNCHANGED << config, mainpc, filterStorage, oscReceiver, soundHandler,
                    convolverHP, p, soundFileList, messages, block,
                    paContinue, out >>

\* lines 182-191 with n = maxChannels: the loop goes on to a channel that
\* has no convolver and no row in the input buffer
CallbackChannelOutOfRange ==
    /\ cb.pc = "loop"
    /\ cb.n \notin Channels
    /\ RaiseIndexError(cb.n)
    /\ UNCHANGED << config, mainpc, filterStorage, oscReceiver, soundHandler,
                    convolvers, convolverHP, p, oscVars, result, block,
                    paContinue, out >>

\* callback.config.get('useHeadphoneFilter') == 'True'
HeadphoneEnabledAlways == TRUE
HeadphoneEnabled == config.useHeadphoneFilter = "True"

\* lines 201-203: the headphone filter over the summed pair
CallbackHP ==
    /\ cb.pc = "hp"
    /\ IF HeadphoneEnabled
       THEN /\ result' = processHP(convolverHP, result)
            /\ log' = [log EXCEPT !.hp = @ + 1,
                                  !.hpAfter = << log.summed, log.scaled >>,
                                  !.presum = result]
       ELSE /\ UNCHANGED result
            /\ log' = [log EXCEPT !.presum = result]
    /\ cb' = [cb EXCEPT !.pc = After(Pipeline, "hp")]
    /\ UNCHANGED << config, mainpc, mainVars, oscVars, block, paContinue, out >>

\* the divisor of line 206
ScaleDivisorActive(nch) == (nch + 1) * 2
ScaleDivisor(nch) == (config.maxChannels + 1) * 2

\* lines 205-207: scale, then apply the loudness factor
CallbackScale ==
    /\ cb.pc = "scale"
    /\ result' = Normalize([l |-> result.l * config.loudnessFactor,
                            r |-> result.r * config.loudnessFactor,
                            den |-> result.den * ScaleDivisor(cb.nch)])
    /\ log' = [log EXCEPT !.scaled = @ + 1, !.prescale = result]
    /\ cb' = [cb EXCEPT !.pc = After(Pipeline, "scale")]
    /\ UNCHANGED << config, mainpc, mainVars, oscVars, block, paContinue, out >>

\* binsim.block.size: the size of the whole input buffer
BlockBufferSize == config.maxChannels * config.blockSize

\* lines 209-214: the end-of-file test and the return to the host
CallbackReturn ==
    /\ cb.pc = "return"
    /\ paContinue' = IF BlockBufferSize < config.blockSize
                     THEN PaComplete ELSE paContinue
    /\ out' = [returned |-> TRUE, flag |-> paContinue', len |-> cb.len]
    /\ log' = [EmptyLog EXCEPT !.initError = log.initError]
    /\ stream' = IF paContinue' = PaContinue THEN stream ELSE "inactive"
    /\ cb' = [cb EXCEPT !.pc = "idle"]
    /\ UNCHANGED << config, mainpc, filterStorage, oscReceiver, soundHandler,
                    convolvers, convolverHP, p, oscVars, result, block >>

\* ------------------------------------------------------------ specification
Next ==
    \/ InitFilterStorage
    \/ InitOscReceiver
    \/ InitSoundHandler
    \/ InitConvolvers
    \/ InitConvolverHP
    \/ InitPyAudio
    \/ InitFail
    \/ stream_start
    \/ StreamLoopExit
    \/ Interrupt
    \/ ExitBeforeStart
    \/ CleanupFilterStorage
    \/ CleanupStopStream
    \/ CleanupStreamClose
    \/ CleanupTerminate
    \/ CleanupOscReceiver
    \/ CleanupConvolvers
    \/ CleanupConvolverHP
    \/ \E n \in Channels, key \in ControlKeys : OscFilter(n, key)
    \/ \E f \in SoundFiles : OscSoundFile(f)
    \/ CallbackStart
    \/ CallbackChannel
    \/ CallbackChannelOutOfRange
    \/ CallbackHP
    \/ CallbackScale
    \/ CallbackReturn

Spec == Init /\ [][Next]_vars


\* the audio host keeps calling the callback while the stream is active, and
\* the main thread runs on; messages and exits of the with-body come from
\* outside and are not forced
AudioThread ==
    CallbackStart \/ CallbackChannel \/ CallbackChannelOutOfRange
        \/ CallbackHP \/ CallbackScale \/ CallbackReturn

MainThread ==
    \/ InitFilterStorage \/ InitOscReceiver \/ InitSoundHandler
    \/ InitConvolvers \/ InitConvolverHP \/ InitPyAudio
    \/ stream_start \/ StreamLoopExit
    \/ CleanupFilterStorage \/ CleanupStopStream \/ CleanupStreamClose
    \/ CleanupTerminate \/ CleanupOscReceiver \/ CleanupConvolvers
    \/ CleanupConvolverHP

FairSpec == Spec /\ WF_vars(AudioThread) /\ WF_vars(MainThread)

\* ------------------------------------------------------------------ claims
ActiveChannels == { n \in Channels : n < soundHandler.channels }

\* C1: when the callback finds a pending key that the filter storage does
\* not hold, the channel's convolver keeps its filter, no exception leaves
\* the callback and the stream stays active for this and later blocks.
C1_MissingKeyKeepsStreaming ==
    \A n \in Channels :
        log.observed[n] \notin (RegisteredKeys \cup {NoKey})
            => /\ convolvers[n].ir = log.missIr
               /\ ~log.raised
               /\ stream = "active"

\* C2 (as claimed): every write to a channel slot is eventually observed by
\* the callback, for every channel index; in particular a write that was
\* pending when an invocation began and that the invocation, now about to
\* return its block, has not read, is read on some later block.
C2_EveryWriteObserved ==
    \A n \in Channels :
        (/\ cb.pc = "return"
         /\ log.atStart[n] # NoKey
         /\ slot[n] = log.atStart[n]
         /\ log.observed[n] = NoKey)
            ~> (slot[n] = NoKey)

\* C2 (amended): a pending write stays in its slot unaltered until a newer
\* message for that slot replaces it or the callback's pass over that
\* channel reads it; the callback passes only over channels below the
\* streaming channel count, and such a pass reads exactly the slot's key
\* and leaves the slot empty.
C2_WriteKeptUntilPolled ==
    [][ /\ \A n \in Channels :
              (slot[n] # NoKey /\ slot'[n] # slot[n])
                  => \/ messages' = messages + 1 /\ slot'[n] \in ControlKeys
                     \/ /\ messages' = messages
                        /\ cb.pc = "loop" /\ cb.n = n
                        /\ n \in ActiveChannels
                        /\ slot'[n] = NoKey
                        /\ log'.observed[n] = slot[n]
        /\ (cb.pc = "loop" /\ cb.n \in Channels /\ cb' # cb)
              => /\ slot'[cb.n] = NoKey
                 /\ slot[cb.n] # NoKey => log'.observed[cb.n] = slot[cb.n]
      ]_vars

\* a write was read by the callback while a write to a channel that is not
\* streaming is still pending
C2_Witness ==
    /\ cb.pc = "return"
    /\ \E n \in Channels : log.observed[n] # NoKey
    /\ \E m \in Channels : m >= cb.nch /\ slot[m] # NoKey

\* C3: an invocation whose input block is shorter than blockSize returns
\* that block with the completion flag.
C3_ShortBlockSignalsCompletion ==
    /\ (out.returned /\ out.len < BlockSize) => out.flag = PaComplete
    /\ (cb.pc = "idle" /\ stream # "none" /\ cb.len < BlockSize /\ log.miss = -1)
           => ~log.raised


\* C4 (as claimed): the block an invocation returns is the summed (and
\* equalized) pair scaled by 1 / ((activeChannelCount + 1) * 2) and
\* multiplied by loudnessFactor.
C4_ScaledByActiveChannelCount ==
    cb.pc = "return"
        => /\ result.l * (log.prescale.den * ((cb.nch + 1) * 2))
                = (log.prescale.l * config.loudnessFactor) * result.den
           /\ result.r * (log.prescale.den * ((cb.nch + 1) * 2))
                = (log.prescale.r * config.loudnessFactor) * result.den

\* C4 (amended): the block an invocation returns is the summed (and
\* equalized) pair scaled by 1 / ((maxChannels + 1) * 2), maxChannels being
\* the configured maximum, and multiplied by loudnessFactor.
C4_ScaledByMaxChannels ==
    cb.pc = "return"
        => /\ log.scaled = 1
           /\ result.l * (log.prescale.den * ((config.maxChannels + 1) * 2))
                = (log.prescale.l * config.loudnessFactor) * result.den
           /\ result.r * (log.prescale.den * ((config.maxChannels + 1) * 2))
                = (log.prescale.r * config.loudnessFactor) * result.den

\* a block with a non-zero sum of fewer channels than configured is returned
C4_Witness ==
    /\ cb.pc = "return"
    /\ cb.nch >= 1 /\ cb.nch < config.maxChannels
    /\ log.prescale.l # 0
    /\ config.loudnessFactor # 1

\* C5: for 0 .. maxChannels streaming channels, the stereo sum that enters
\* headphone filtering and scaling is exactly the sum of the outputs the
\* active channels produced in this invocation.
C5_SumIsThisInvocationsOutputs ==
    (cb.pc = After(Pipeline, "loop") /\ log.hp = 0 /\ log.scaled = 0)
        => /\ result.l = log.sum.l * result.den
           /\ result.r = log.sum.r * result.den

\* C6: a channel at or above the streaming channel count is skipped by the
\* invocation: no setIR, no process, convolver unchanged, nothing summed.
C6_InactiveChannelsSkipped ==
    cb.pc # "idle"
        => \A n \in Channels \ ActiveChannels :
              /\ log.setIR[n] = 0
              /\ log.process[n] = 0
              /\ convolvers[n] = log.before[n]
              /\ n \notin log.summed

\* an invocation is about to return after summing fewer channels than exist
C6_Witness ==
    /\ cb.pc = "return"
    /\ log.summed # {}
    /\ Channels \ ActiveChannels # {}

\* C7: with headphone equalization enabled the equalization convolver runs
\* exactly once per invocation, after every active channel was summed and
\* before scaling, and its output replaces the sum; disabled, it never runs
\* and the sum reaches the scaling step unchanged.
C7_HeadphoneOnceBetweenSumAndScale ==
    /\ log.hp <= 1
    /\ log.hp = 1 => log.hpAfter = << ActiveChannels, 0 >>
    /\ IF config.useHeadphoneFilter = "True"
       THEN /\ cb.pc = "scale"
                => /\ log.hp = 1
                   /\ result = processHP(convolverHP, log.presum)
            /\ cb.pc = "return" => log.hp = 1 /\ log.scaled = 1
       ELSE /\ log.hp = 0
            /\ cb.pc = "scale" => result = log.presum

\* the equalized sum of at least one channel is about to be scaled
C7_Witness ==
    /\ cb.pc = "scale"
    /\ config.useHeadphoneFilter = "True"
    /\ log.hp = 1
    /\ log.summed # {}
    /\ log.presum.l # 0


\* every component __init__ builds exists
Constructed ==
    /\ filterStorage # "none"
    /\ oscReceiver # "none"
    /\ soundHandler.state = "ready"
    /\ \A n \in Channels : convolvers[n].state # "none"
    /\ config.useHeadphoneFilter = "True" => convolverHP.state # "none"
    /\ p # "none"

\* C8: a failure during startup reaches the caller and no callback ever
\* runs for that instance; the stream is opened only after initialization
\* has fully succeeded.
C8_StartupFailureBeforeAudio ==
    /\ log.initError
          => /\ mainpc = "init_failed"
             /\ stream = "none"
             /\ cb.pc = "idle" /\ ~out.returned /\ ~log.raised
    /\ stream # "none" => Constructed

\* a constructor failed after the filter storage and the receiver were built
C8_Witness ==
    /\ mainpc = "init_failed"
    /\ log.initError
    /\ oscReceiver = "listening"

\* C9: the filter storage is closed only after every convolver, per-channel
\* and headphone, has been closed.
C9_StorageOutlivesConvolvers ==
    filterStorage = "closed"
        => /\ \A n \in Channels : convolvers[n].state # "open"
           /\ convolverHP.state # "open"

\* C10: no resource the callback uses is closed while an invocation is in
\* progress or while the stream has not been stopped.
C10_NoTeardownWhileStreaming ==
    (\/ filterStorage = "closed"
     \/ oscReceiver = "closed"
     \/ \E n \in Channels : convolvers[n].state = "closed"
     \/ convolverHP.state = "closed")
        => /\ cb.pc = "idle"
           /\ stream # "active"


\* C11: on one convolver setIR and process are never concurrent: within an
\* invocation the calls on a channel's convolver are made one after the
\* other, and when a change is pending setIR comes first and has completed
\* before process, so that the block's output is computed with the new
\* filter, which stays installed afterwards.
C11_SetIRBeforeProcess ==
    \A n \in Channels :
        /\ log.ops[n] \in { << >>, << "process" >>, << "setIR", "process" >> }
        /\ log.setIR[n] = 1
              => /\ log.outIr[n] = log.observed[n]
                 /\ convolvers[n].ir = log.observed[n]

\* a pending change was installed and the block processed with it
C11_Witness ==
    \E n \in Channels :
        /\ log.ops[n] = << "setIR", "process" >>
        /\ log.outIr[n] = "k1"
        /\ log.before[n].ir = NoKey

\* C12: in an invocation the slot of every active channel is polled exactly
\* once, setIR is called at most once per channel and only when a change
\* was pending at the poll, and a channel without a pending change keeps
\* its filter over the block.
C12_OnePollPerActiveChannel ==
    /\ \A n \in Channels :
          /\ log.polls[n] <= 1
          /\ log.setIR[n] <= log.polls[n]
          /\ log.setIR[n] = 1 => log.atPoll[n] # NoKey
          /\ (log.polls[n] = 1 /\ log.atPoll[n] = NoKey)
                => convolvers[n].ir = log.before[n].ir
    /\ cb.pc \in { "hp", "scale", "return" }
          => \A n \in Channels :
                log.polls[n] = (IF n \in ActiveChannels THEN 1 ELSE 0)

\* every loop pass is done: one channel had a change pending, another not
C12_Witness ==
    /\ cb.pc = "return"
    /\ \E n \in Channels : log.polls[n] = 1 /\ log.setIR[n] = 1
    /\ \E m \in Channels : log.polls[m] = 1 /\ log.setIR[m] = 0


\* C13: the crossfade flag a channel convolver's setIR receives is false
\* exactly when the configured enableCrossfading is false, and true exactly
\* when it is true.
C13_CrossfadeFlagFollowsSetting ==
    \A n \in Channels :
        log.setIR[n] = 1
            => /\ Truthy(log.flag[n]) <=> config.enableCrossfading = "True"
               /\ convolvers[n].crossfade <=> config.enableCrossfading = "True"


\* C14: once __exit__ is over, on every way out of the with-block (the
\* stream ended, an exception while streaming, no stream_start at all), the
\* filter storage, the stream, the audio host, the control receiver, every
\* channel convolver and the enabled headphone convolver are released.
C14_CleanupReleasesEverything ==
    mainpc \in { "exited", "cleanup_raised" }
        => /\ filterStorage = "closed"
           /\ stream \in { "none", "closed" }
           /\ p = "terminated"
           /\ oscReceiver = "closed"
           /\ \A n \in Channels : convolvers[n].state = "closed"
           /\ config.useHeadphoneFilter = "True"
                 => convolverHP.state = "closed"


\* C15: whatever channel count the sound handler reports, also one above
\* maxChannels and also after a sound-file change, the callback processes
\* at most maxChannels channels and every index it uses on the convolver
\* list and the input buffer lies in 0 .. maxChannels-1.
C15_ChannelIndexWithinBounds ==
    /\ log.summed \subseteq 0 .. (config.maxChannels - 1)
    /\ cb.pc = "loop" => cb.n \in 0 .. (config.maxChannels - 1)
    /\ log.index = << >>


\* C16: whenever the callback has run the headphone step, the headphone
\* convolver exists, is open and holds 'HPFILTER', installed without
\* crossfade; and its impulse response is only ever set by the
\* initialization, before there is a stream, never by a filter update that
\* the control thread requested.
C16_HeadphoneFilterSetOnceAtInit ==
    /\ [](log.hp >= 1 => /\ convolverHP.state = "open"
                         /\ convolverHP.ir = HPKey
                         /\ ~convolverHP.crossfade)
    /\ [][(convolverHP'.ir # convolverHP.ir
              \/ convolverHP'.crossfade # convolverHP.crossfade)
            => /\ mainpc = "init_convolverHP"
               /\ stream = "none"
               /\ convolverHP.state = "none"]_vars

\* the headphone step has run in a block in which a channel's filter was
\* replaced on request of the control thread
C16_Witness ==
    /\ cb.pc = "scale"
    /\ log.hp = 1
    /\ \E n \in Channels : log.setIR[n] = 1 /\ convolvers[n].ir = "k1"
    /\ convolverHP.ir = HPKey

====
